---- MODULE Spec2Model ----
(***************************************************************************)
(* TumourTracker: the two registration programs, rigid_register and        *)
(* deformable_register.  Each main() reads a fixed and a moving volume,    *)
(* runs a multi-level registration through registration->Update(),         *)
(* resamples and writes the moving volume and (deformable only) reports    *)
(* the Jacobian determinant range of the final transform.                  *)
(*                                                                         *)
(* The control flow of main(), its diagnostics and exit codes, and the     *)
(* configuration handed to the registration object (iteration and          *)
(* evaluation caps, bound arrays, mesh size, in-place transform) are       *)
(* taken from the source.  The level loop that runs behind                 *)
(* registration->Update() lives in the wrapped toolkit; it is modelled     *)
(* after section 4.6 of the specification (Prepare, Optimize, Commit per   *)
(* level, then Finalize), driven by the configuration the source sets.     *)
(*                                                                         *)
(* The parameter vector is filled uniformly by the source (identity        *)
(* transform, Fill(0) bound arrays) and every optimizer step of the model  *)
(* moves all parameters alike, so a vector is held as its common value     *)
(* together with its length.                                               *)
(***************************************************************************)
EXTENDS Integers, Sequences, FiniteSets

VARIABLES
    prog,               \* "rigid" or "deformable": which main() runs
    argc,               \* number of command-line words
    pc,                 \* position of main()
    exitCode,           \* value returned by main(), meaningful once pc = "done"
    cerr,               \* diagnostics written to std::cerr
    cout,               \* messages written to std::cout
    fixedRead,          \* fixedReader->Update() returned
    movingRead,         \* movingReader->Update() returned
    failedStage,        \* the stage whose Update() threw, "none" if none did
    resampled,          \* the resampler ran (inside writer->Update())
    outputWritten,      \* the output file was written
    jacobianOf,         \* the parameters the Jacobian filter was run on
    minJac,             \* statsFilter->GetMinimum()
    maxJac,             \* statsFilter->GetMaximum()
    numberOfLevels,     \* number of pyramid levels of the run
    level,              \* current level, 1 = coarsest
    phase,              \* step of the level loop
    parameters,         \* the transform's parameter vector (common value)
    parameterLength,    \* the transform's parameter vector (length)
    unbounded,          \* what the unprojected search would hold
    boundActive,        \* a projection clipped a step
    seed,               \* parameters the current level started from
    committed,          \* parameters committed by the last committed level
    prepareCount,       \* per level: number of Prepare steps
    optimizeCount,      \* per level: number of completed Optimize steps
    commitCount,        \* per level: number of Commit steps
    iter,               \* optimizer iteration count of the current level
    evals,              \* optimizer function-evaluation count
    lineSearchEvals,    \* evaluations one iteration of this level costs
    stopReason,         \* the optimizer's stopping reason, "none" while running
    regError,           \* the exception registration->Update() threw
    levelControlPoints, \* control-point count used at each prepared level
    warned              \* levels whose stall was reported as a warning

vars == << prog, argc, pc, exitCode, cerr, cout, fixedRead, movingRead,
           failedStage, resampled, outputWritten, jacobianOf, minJac, maxJac,
           numberOfLevels, level, phase, parameters, parameterLength,
           unbounded, boundActive, seed, committed, prepareCount,
           optimizeCount, commitCount, iter, evals, lineSearchEvals,
           stopReason, regError, levelControlPoints, warned >>

mainVars == << exitCode, cerr, cout, fixedRead, movingRead, failedStage,
               resampled, outputWritten, jacobianOf, minJac, maxJac >>

engineVars == << numberOfLevels, level, phase, parameters, parameterLength,
                 unbounded, boundActive, seed, committed, prepareCount,
                 optimizeCount, commitCount, iter, evals, lineSearchEvals,
                 stopReason, regError, levelControlPoints, warned >>

-----------------------------------------------------------------------------
(* Bounds of the model *)

MaxLevels == 3          \* pyramid depths explored: 1..MaxLevels
MaxParam == 1           \* parameter values explored: -MaxParam..MaxParam
MaxLineSearch == 3      \* evaluations per iteration: 1 or MaxLineSearch
MaxJac == 2             \* determinant values explored: -MaxJac..MaxJac

-----------------------------------------------------------------------------
(* Program constants *)

EXIT_SUCCESS == 0
EXIT_FAILURE == 1
RequiredArgc == 4
ImageDimension == 3
SplineOrder == 3
MeshSize == 5
RigidParameterCount == 6
DeformableNumberOfIterations == 200
MaximumNumberOfFunctionEvaluations == 500
RigidNumberOfIterations == 200
BoundSelectFill == 0
LowerBoundFill == 0
UpperBoundFill == 0

Programs == {"rigid", "deformable"}
NoError == [kind |-> "none", level |-> 0, cause |-> "none"]
Levels == 1..MaxLevels
ParamValues == (0 - MaxParam)..MaxParam
CandidateSteps == {0 - 1, 1}
JacValues == (0 - MaxJac)..MaxJac

-----------------------------------------------------------------------------
(* Pure helpers *)

Min(a, b) == IF a < b THEN a ELSE b
Max(a, b) == IF a > b THEN a ELSE b

RECURSIVE Power(_, _)
Power(b, e) == IF e = 0 THEN 1 ELSE b * Power(b, e - 1)

\* A B-spline lattice of the given mesh size has mesh + order control
\* points along each axis.
ControlPointCount(mesh) == Power(mesh + SplineOrder, ImageDimension)

\* transform->GetNumberOfParameters()
NumberOfParameters(p, mesh) ==
    IF p = "rigid" THEN RigidParameterCount
    ELSE ImageDimension * ControlPointCount(mesh)

\* The mesh size the transform has at a level: the source sets one mesh
\* size on the initializer and installs no per-level refinement.
RefinedLevelMeshSize(lvl) == MeshSize + lvl - 1
DoubledLevelMeshSize(lvl) == MeshSize * lvl
LevelMeshSize(lvl) == MeshSize

\* Level descriptors of an n-level schedule, level 1 the coarsest.
ShrinkFactor(n, lvl) == Power(2, n - lvl)
SmoothingSigma(n, lvl) == n - lvl

\* Bound arrays handed to the optimizer: Fill(...) gives every index the
\* same entry.
BoundSelectBoth(i) == 2
BoundSelectAt(i) == BoundSelectFill
LowerBoundAt(i) == LowerBoundFill
UpperBoundAt(i) == UpperBoundFill

\* Length of the bound-selection, lower-bound and upper-bound arrays: all
\* three are sized once, before the registration, from the parameter count
\* of the freshly initialized transform.
BoundVectorLength == NumberOfParameters("deformable", MeshSize)

\* One parameter's step after projection onto its box.  Selection
\* 0 = unbounded, 1 = lower bound only, 2 = both bounds, 3 = upper only.
ProjectStep(x, s, sel, lo, hi) ==
    LET y == x + s
        z == CASE sel = 0 -> y
               [] sel = 1 -> Max(y, lo)
               [] sel = 2 -> Min(Max(y, lo), hi)
               [] OTHER   -> Min(y, hi)
    IN  z - x

\* The step the program's optimizer applies to a parameter.
AppliedStep(p, x, s) ==
    IF p = "deformable"
    THEN ProjectStep(x, s, BoundSelectAt(1), LowerBoundAt(1), UpperBoundAt(1))
    ELSE s

IterationCap(p) ==
    IF p = "rigid" THEN RigidNumberOfIterations ELSE DeformableNumberOfIterations

\* Only the deformable optimizer is given an evaluation cap.
HasEvaluationCap(p) == p = "deformable"

\* Evaluations one iteration may cost: the rigid gradient descent evaluates
\* once per iteration, the deformable line search once or several times.
LineSearchChoices(p) == IF p = "rigid" THEN {1} ELSE {1, MaxLineSearch}

\* The rigid optimizer is a regular-step gradient descent given an
\* iteration count and a minimum step length.
RigidStopReasons == {"iteration-limit", "minimum-step-length"}

\* The deformable optimizer is given a gradient tolerance, an iteration
\* count and an evaluation cap; its line search may also fail.
DeformableStopReasons ==
    {"gradient-converged", "iteration-limit", "evaluation-limit",
     "line-search-failure"}

StopReasons(p) == IF p = "rigid" THEN RigidStopReasons ELSE DeformableStopReasons

\* Section 7: a stall is fatal only when no level has produced a seed yet.
StallIsFatal(lvl) == lvl = 1

SkipLevel(lvl) == lvl + 2
NextLevel(lvl) == lvl + 1

\* Diagnostics of the catch blocks, and the exit code each returns.
ReadDiagnostic(p) == "Error reading images"
RegistrationDiagnostic(p) ==
    IF p = "rigid" THEN "Registration failed"
    ELSE "Deformable registration failed"
WriteDiagnostic(p) ==
    IF p = "rigid" THEN "Error writing output"
    ELSE "Error writing output image"
UsageDiagnostic == "Usage"

\* Where main() goes after a catch block: each one returns.
ReadCatchFallsThrough == "setup"
ReadCatchGoesTo == "done"
RegistrationCatchFallsThrough == "write"
RegistrationCatchGoesTo == "done"

WriteFailureExitsZero == EXIT_SUCCESS
ReadFailureExit == EXIT_FAILURE
RegistrationFailureExit == EXIT_FAILURE
WriteFailureExit == EXIT_FAILURE
SuccessExit == EXIT_SUCCESS

CompletedMessage(p) ==
    IF p = "rigid" THEN "Rigid registration completed successfully."
    ELSE "Deformable registration completed successfully."
JacobianRangeMessage == "JacobianDeterminant range"
FoldingWarning == "WARNING: Non-Positive Jacobian detected."

\* The folding test of the Jacobian report.
FoldingOnlyBelowZero(mn) == mn < 0
FoldingDetected(mn) == mn <= 0

-----------------------------------------------------------------------------
(* Initial state: the process has started, nothing has been read *)

Init ==
    /\ prog \in Programs
    /\ argc \in {RequiredArgc - 1, RequiredArgc}
    /\ pc = "start"
    /\ exitCode = EXIT_FAILURE
    /\ cerr = {}
    /\ cout = {}
    /\ fixedRead = FALSE
    /\ movingRead = FALSE
    /\ failedStage = "none"
    /\ resampled = FALSE
    /\ outputWritten = FALSE
    /\ jacobianOf = << >>
    /\ minJac = 0
    /\ maxJac = 0
    /\ numberOfLevels \in Levels
    /\ level = 0
    /\ phase = "idle"
    /\ parameters = 0
    /\ parameterLength = 0
    /\ unbounded = 0
    /\ boundActive = FALSE
    /\ seed = 0
    /\ committed = 0
    /\ prepareCount = [l \in Levels |-> 0]
    /\ optimizeCount = [l \in Levels |-> 0]
    /\ commitCount = [l \in Levels |-> 0]
    /\ iter = 0
    /\ evals = 0
    /\ lineSearchEvals = 1
    /\ stopReason = "none"
    /\ regError = NoError
    /\ levelControlPoints = << >>
    /\ warned = {}

-----------------------------------------------------------------------------
(* main(): argument check and the two readers *)

\* if (argc < 4) { usage; return EXIT_FAILURE; }
CheckArgs ==
    /\ pc = "start"
    /\ IF argc < RequiredArgc
       THEN /\ cerr' = cerr \cup {UsageDiagnostic}
            /\ exitCode' = EXIT_FAILURE
            /\ pc' = "done"
       ELSE /\ pc' = "readFixed"
            /\ UNCHANGED << cerr, exitCode >>
    /\ UNCHANGED << prog, argc, cout, fixedRead, movingRead, failedStage,
                    resampled, outputWritten, jacobianOf, minJac, maxJac >>
    /\ UNCHANGED engineVars

\* The catch block of the read try: diagnostic, return EXIT_FAILURE.
ReadFailed ==
    /\ failedStage' = "read"
    /\ cerr' = cerr \cup {ReadDiagnostic(prog)}
    /\ exitCode' = ReadFailureExit
    /\ pc' = ReadCatchGoesTo

\* fixedReader->Update()
ReadFixed ==
    /\ pc = "readFixed"
    /\ \E ok \in BOOLEAN :
          IF ok
          THEN /\ fixedRead' = TRUE
               /\ pc' = "readMoving"
               /\ UNCHANGED << failedStage, cerr, exitCode >>
          ELSE /\ ReadFailed
               /\ UNCHANGED fixedRead
    /\ UNCHANGED << prog, argc, cout, movingRead, resampled, outputWritten,
                    jacobianOf, minJac, maxJac >>
    /\ UNCHANGED engineVars

\* movingReader->Update()
ReadMoving ==
    /\ pc = "readMoving"
    /\ \E ok \in BOOLEAN :
          IF ok
          THEN /\ movingRead' = TRUE
               /\ pc' = "setup"
               /\ UNCHANGED << failedStage, cerr, exitCode >>
          ELSE /\ ReadFailed
               /\ UNCHANGED movingRead
    /\ UNCHANGED << prog, argc, cout, fixedRead, resampled, outputWritten,
                    jacobianOf, minJac, maxJac >>
    /\ UNCHANGED engineVars

\* Transform, metric, optimizer and registration objects are built and
\* configured; the transform starts as the identity.
Setup ==
    /\ pc = "setup"
    /\ parameters' = 0
    /\ parameterLength' = NumberOfParameters(prog, MeshSize)
    /\ unbounded' = 0
    /\ pc' = "register"
    /\ UNCHANGED << prog, argc >>
    /\ UNCHANGED mainVars
    /\ UNCHANGED << numberOfLevels, level, phase, boundActive, seed, committed,
                    prepareCount, optimizeCount, commitCount, iter, evals,
                    lineSearchEvals, stopReason, regError, levelControlPoints,
                    warned >>

-----------------------------------------------------------------------------
(* registration->Update(): the level loop *)

\* An exception leaves registration->Update(); the catch block of main()
\* prints the registration diagnostic with the exception and returns.
RegistrationFailed(err) ==
    /\ regError' = err
    /\ phase' = "failed"
    /\ failedStage' = "registration"
    /\ cerr' = cerr \cup {RegistrationDiagnostic(prog)}
    /\ exitCode' = RegistrationFailureExit
    /\ pc' = RegistrationCatchGoesTo

\* Init of the level loop: the first level is the coarsest.
StartRegistration ==
    /\ pc = "register"
    /\ phase = "idle"
    /\ level' = 1
    /\ phase' = "prepare"
    /\ UNCHANGED << prog, argc, pc >>
    /\ UNCHANGED mainVars
    /\ UNCHANGED << numberOfLevels, parameters, parameterLength, unbounded,
                    boundActive, seed, committed, prepareCount, optimizeCount,
                    commitCount, iter, evals, lineSearchEvals, stopReason,
                    regError, levelControlPoints, warned >>

\* Prepare: the level's volumes are derived, the transform takes the
\* level's mesh, the optimizer is reset and seeded with the transform's
\* current parameters.
Prepare ==
    /\ pc = "register"
    /\ phase = "prepare"
    /\ prepareCount' = [prepareCount EXCEPT ![level] = @ + 1]
    /\ levelControlPoints' =
          IF prog = "deformable"
          THEN Append(levelControlPoints, ControlPointCount(LevelMeshSize(level)))
          ELSE levelControlPoints
    /\ parameterLength' = NumberOfParameters(prog, LevelMeshSize(level))
    /\ seed' = parameters
    /\ unbounded' = parameters
    /\ iter' = 0
    /\ evals' = 0
    /\ stopReason' = "none"
    /\ \E r \in LineSearchChoices(prog) : lineSearchEvals' = r
    /\ phase' = "optimize"
    /\ UNCHANGED << prog, argc, pc >>
    /\ UNCHANGED mainVars
    /\ UNCHANGED << numberOfLevels, level, parameters, boundActive, committed,
                    optimizeCount, commitCount, regError, warned >>

\* The optimizer may take another iteration.
CanIterate ==
    /\ iter < IterationCap(prog)
    /\ HasEvaluationCap(prog) => evals < MaximumNumberOfFunctionEvaluations

\* The evaluation count after one more iteration.
EvaluationsAfter(p, e, cost) ==
    IF HasEvaluationCap(p)
    THEN Min(e + cost, MaximumNumberOfFunctionEvaluations)
    ELSE e + cost

\* One optimizer iteration: a candidate step is found, projected onto the
\* bounds (deformable) and written into the transform in place.
OptimizerIterate ==
    /\ pc = "register"
    /\ phase = "optimize"
    /\ stopReason = "none"
    /\ CanIterate
    /\ \E s \in CandidateSteps :
          LET applied == AppliedStep(prog, parameters, s)
          IN  /\ parameters + applied \in ParamValues
              /\ unbounded + s \in ParamValues
              /\ parameters' = parameters + applied
              /\ unbounded' = unbounded + s
              /\ boundActive' = (boundActive \/ applied # s)
    /\ iter' = iter + 1
    /\ evals' = EvaluationsAfter(prog, evals, lineSearchEvals)
    /\ UNCHANGED << prog, argc, pc >>
    /\ UNCHANGED mainVars
    /\ UNCHANGED << numberOfLevels, level, phase, parameterLength, seed,
                    committed, prepareCount, optimizeCount, commitCount,
                    lineSearchEvals, stopReason, regError, levelControlPoints,
                    warned >>

\* A metric evaluation throws during Optimize: the exception carries the
\* level and the cause, and propagates out of registration->Update().
MetricEvaluationFails ==
    /\ pc = "register"
    /\ phase = "optimize"
    /\ stopReason = "none"
    /\ CanIterate
    /\ RegistrationFailed([kind |-> "DegenerateOverlapError", level |-> level,
                           cause |-> "metric"])
    /\ UNCHANGED << prog, argc, cout, fixedRead, movingRead, resampled,
                    outputWritten, jacobianOf, minJac, maxJac >>
    /\ UNCHANGED << numberOfLevels, level, parameters, parameterLength,
                    unbounded, boundActive, seed, committed, prepareCount,
                    optimizeCount, commitCount, iter, evals, lineSearchEvals,
                    stopReason, levelControlPoints, warned >>

\* When the optimizer may stop for a reason.
StopEnabled(r) ==
    CASE r = "iteration-limit"  -> iter = IterationCap(prog)
      [] r = "evaluation-limit" -> evals = MaximumNumberOfFunctionEvaluations
      [] r = "minimum-step-length" -> CanIterate /\ iter > 0
      [] OTHER                  -> CanIterate

\* The optimizer stops and returns its best-so-far parameters.  A stall at
\* the first level is fatal; at a later level it is a warning.
OptimizerStop ==
    /\ pc = "register"
    /\ phase = "optimize"
    /\ stopReason = "none"
    /\ \E r \in StopReasons(prog) :
          /\ StopEnabled(r)
          /\ stopReason' = r
          /\ optimizeCount' = [optimizeCount EXCEPT ![level] = @ + 1]
          /\ IF r = "line-search-failure" /\ StallIsFatal(level)
             THEN /\ RegistrationFailed([kind |-> "OptimizerStallError",
                                         level |-> level,
                                         cause |-> "line-search"])
                  /\ UNCHANGED warned
             ELSE /\ phase' = "commit"
                  /\ warned' = IF r = "line-search-failure"
                               THEN warned \cup {level} ELSE warned
                  /\ UNCHANGED << regError, failedStage, cerr, exitCode, pc >>
    /\ UNCHANGED << prog, argc, cout, fixedRead, movingRead, resampled,
                    outputWritten, jacobianOf, minJac, maxJac >>
    /\ UNCHANGED << numberOfLevels, level, parameters, parameterLength,
                    unbounded, boundActive, seed, committed, prepareCount,
                    commitCount, iter, evals, lineSearchEvals,
                    levelControlPoints >>

\* Commit: the converged parameters become the seed of the next level, or
\* the final result after the last level.
Commit ==
    /\ pc = "register"
    /\ phase = "commit"
    /\ committed' = parameters
    /\ commitCount' = [commitCount EXCEPT ![level] = @ + 1]
    /\ IF level < numberOfLevels
       THEN /\ level' = NextLevel(level)
            /\ phase' = "prepare"
       ELSE /\ phase' = "finalize"
            /\ UNCHANGED level
    /\ UNCHANGED << prog, argc, pc >>
    /\ UNCHANGED mainVars
    /\ UNCHANGED << numberOfLevels, parameters, parameterLength, unbounded,
                    boundActive, seed, prepareCount, optimizeCount, iter,
                    evals, lineSearchEvals, stopReason, regError,
                    levelControlPoints, warned >>

\* Finalize: registration->Update() returns; the deformable program
\* announces the completed registration.
Finalize ==
    /\ pc = "register"
    /\ phase = "finalize"
    /\ phase' = "finalized"
    /\ cout' = IF prog = "deformable"
               THEN cout \cup {CompletedMessage(prog)} ELSE cout
    /\ pc' = "write"
    /\ UNCHANGED << prog, argc, exitCode, cerr, fixedRead, movingRead,
                    failedStage, resampled, outputWritten, jacobianOf,
                    minJac, maxJac >>
    /\ UNCHANGED << numberOfLevels, level, parameters, parameterLength,
                    unbounded, boundActive, seed, committed, prepareCount,
                    optimizeCount, commitCount, iter, evals, lineSearchEvals,
                    stopReason, regError, levelControlPoints, warned >>

-----------------------------------------------------------------------------
(* main(): resample and write, Jacobian report *)

\* writer->Update() pulls the resampler and encodes the result.  The rigid
\* program announces completion and returns; the deformable one goes on to
\* the Jacobian check.
WriteOutput ==
    /\ pc = "write"
    /\ \E ok \in BOOLEAN, ran \in BOOLEAN :
          IF ok
          THEN /\ resampled' = TRUE
               /\ outputWritten' = TRUE
               /\ UNCHANGED << failedStage, cerr >>
               /\ IF prog = "rigid"
                  THEN /\ cout' = cout \cup {CompletedMessage(prog)}
                       /\ exitCode' = SuccessExit
                       /\ pc' = "done"
                  ELSE /\ pc' = "jacobian"
                       /\ UNCHANGED << cout, exitCode >>
          ELSE /\ resampled' = ran
               /\ failedStage' = "write"
               /\ cerr' = cerr \cup {WriteDiagnostic(prog)}
               /\ exitCode' = WriteFailureExit
               /\ pc' = "done"
               /\ UNCHANGED << outputWritten, cout >>
    /\ UNCHANGED << prog, argc, fixedRead, movingRead, jacobianOf, minJac,
                    maxJac >>
    /\ UNCHANGED engineVars

\* The displacement field of the transform, its Jacobian determinant and
\* the statistics filter run; minimum and maximum are extracted.
JacobianCheck ==
    /\ pc = "jacobian"
    /\ jacobianOf' = << parameters >>
    /\ \E mn \in JacValues, mx \in JacValues :
          /\ mn <= mx
          /\ minJac' = mn
          /\ maxJac' = mx
    /\ pc' = "report"
    /\ UNCHANGED << prog, argc, exitCode, cerr, cout, fixedRead, movingRead,
                    failedStage, resampled, outputWritten >>
    /\ UNCHANGED engineVars

\* The range is printed, the folding warning when the minimum is not
\* positive, and main() returns EXIT_SUCCESS.
JacobianReport ==
    /\ pc = "report"
    /\ cout' = cout \cup {JacobianRangeMessage}
                    \cup (IF FoldingDetected(minJac) THEN {FoldingWarning} ELSE {})
    /\ exitCode' = SuccessExit
    /\ pc' = "done"
    /\ UNCHANGED << prog, argc, cerr, fixedRead, movingRead, failedStage,
                    resampled, outputWritten, jacobianOf, minJac, maxJac >>
    /\ UNCHANGED engineVars

-----------------------------------------------------------------------------

Next ==
    \/ CheckArgs
    \/ ReadFixed
    \/ ReadMoving
    \/ Setup
    \/ StartRegistration
    \/ Prepare
    \/ OptimizerIterate
    \/ MetricEvaluationFails
    \/ OptimizerStop
    \/ Commit
    \/ Finalize
    \/ WriteOutput
    \/ JacobianCheck
    \/ JacobianReport

Spec == Init /\ [][Next]_vars

-----------------------------------------------------------------------------
(* Claims *)

\* The messages that name a stage on the error stream.
DiagnosticsNaming(stage) ==
    CASE stage = "read" -> {"Error reading images"}
      [] stage = "registration" ->
            {"Registration failed", "Deformable registration failed"}
      [] stage = "write" ->
            {"Error writing output", "Error writing output image"}
      [] OTHER -> {}

Exited == pc = "done"
RunWithPaths == argc >= RequiredArgc

\* C1: run with the three paths, either program exits with code 0 only when
\* both reads, the registration and the write succeeded; a failure of the
\* read, registration or write stage gives a non-zero exit code and a
\* diagnostic naming that stage on the error stream.
C1_ExitCodeReflectsStages ==
    (Exited /\ RunWithPaths) =>
        /\ (exitCode = 0) =>
              /\ fixedRead /\ movingRead
              /\ phase = "finalized"
              /\ outputWritten
              /\ failedStage = "none"
        /\ (failedStage # "none") =>
              /\ exitCode # 0
              /\ cerr \cap DiagnosticsNaming(failedStage) # {}

\* C1 witness: the deformable program exited after its write stage failed.
C1_Witness ==
    /\ Exited /\ RunWithPaths
    /\ prog = "deformable"
    /\ failedStage = "write"
    /\ phase = "finalized"

\* C2: levels run strictly in sequence, coarse to fine: each level has at
\* most one Prepare, then one Optimize, then one Commit; a level is
\* prepared only after the previous one committed; levels beyond N are
\* never run; at Finalize every level 1..N ran exactly once; and the
\* parameters a level starts from are those the previous level committed.
C2_LevelSequence ==
    /\ \A l \in Levels :
          /\ prepareCount[l] <= 1
          /\ optimizeCount[l] <= prepareCount[l]
          /\ commitCount[l] <= optimizeCount[l]
          /\ (l > 1) => prepareCount[l] <= commitCount[l - 1]
          /\ (l > numberOfLevels) => prepareCount[l] = 0
    /\ (phase \in {"finalize", "finalized"}) =>
          \A l \in 1..numberOfLevels :
             prepareCount[l] = 1 /\ optimizeCount[l] = 1 /\ commitCount[l] = 1
    /\ (phase \in {"optimize", "commit"} /\ level > 1) =>
          /\ seed = committed
          /\ commitCount[level - 1] = 1
    /\ (phase = "finalized") => parameters = committed

\* C2 witness: a run over the deepest pyramid reached Finalize with the
\* last level seeded by moved parameters.
C2_Witness ==
    /\ phase = "finalized"
    /\ numberOfLevels = MaxLevels
    /\ seed # 0

\* C3: when a metric evaluation fails at level k the run aborts: the error
\* carries k and the cause, no later level is prepared or optimized, and
\* the transform still retrievable is the one the last fully committed
\* level committed.
C3_AbortKeepsCommitted ==
    (phase = "failed" /\ regError.kind = "DegenerateOverlapError") =>
        /\ regError.level = level
        /\ regError.cause # "none"
        /\ \A l \in Levels :
              (l > level) => (prepareCount[l] = 0 /\ optimizeCount[l] = 0)
        /\ (level > 1) => parameters = committed

\* C4: the schedule of an N-level run has strictly decreasing shrink
\* factors ending at 1, strictly decreasing sigmas ending at 0, and on the
\* deformable path strictly increasing control-point counts.
C4_ScheduleMonotone ==
    /\ ShrinkFactor(numberOfLevels, numberOfLevels) = 1
    /\ SmoothingSigma(numberOfLevels, numberOfLevels) = 0
    /\ \A l \in 1..(numberOfLevels - 1) :
          /\ ShrinkFactor(numberOfLevels, l) > ShrinkFactor(numberOfLevels, l + 1)
          /\ SmoothingSigma(numberOfLevels, l) > SmoothingSigma(numberOfLevels, l + 1)
    /\ \A i \in 2..Len(levelControlPoints) :
          levelControlPoints[i] > levelControlPoints[i - 1]

\* C7: in the deformable program, once read, registration and write have
\* succeeded the output is on disk before the Jacobian check, the range is
\* reported, the folding warning is printed exactly when the minimum is
\* not positive, and the exit code is 0 either way.
C7_FoldingIsWarning ==
    /\ (pc \in {"jacobian", "report"}) => outputWritten
    /\ (/\ prog = "deformable" /\ Exited
        /\ fixedRead /\ movingRead /\ phase = "finalized" /\ outputWritten) =>
          /\ JacobianRangeMessage \in cout
          /\ (FoldingWarning \in cout) <=> (minJac <= 0)
          /\ exitCode = 0

\* C7 witness: the deformable program exited with a minimum determinant of
\* exactly zero.
C7_Witness ==
    /\ prog = "deformable" /\ Exited
    /\ outputWritten
    /\ minJac = 0
    /\ FoldingWarning \in cout

\* C8: resampling and writing happen only after the registration was
\* finalized; a run whose read or registration failed never resamples or
\* writes; the Jacobian check runs on the finalized transform only.
C8_ResampleAfterFinalize ==
    /\ (resampled \/ outputWritten) => phase = "finalized"
    /\ (failedStage \in {"read", "registration"}) =>
          (~resampled /\ ~outputWritten /\ jacobianOf = << >>)
    /\ (jacobianOf # << >>) =>
          (phase = "finalized" /\ jacobianOf = << committed >>)

\* C8 witness: a run whose registration failed at a later level has
\* exited.
C8_Witness ==
    /\ Exited
    /\ failedStage = "registration"
    /\ level > 1
    /\ ~resampled

\* C9: an Optimize step stops with exactly one of the four stopping
\* reasons, within the iteration cap and the evaluation cap, and the
\* reason agrees with the counts.
C9_OptimizeStops ==
    (stopReason # "none") =>
        /\ stopReason \in {"gradient-converged", "iteration-limit",
                           "evaluation-limit", "line-search-failure"}
        /\ iter <= IterationCap(prog)
        /\ evals <= MaximumNumberOfFunctionEvaluations
        /\ (stopReason = "iteration-limit") => iter = IterationCap(prog)
        /\ (stopReason = "evaluation-limit") =>
              evals = MaximumNumberOfFunctionEvaluations

\* C10: with the default zero-width bounds and no bound selected, the
\* bounded optimizer is unconstrained: every candidate step of every
\* parameter is left as it is by the projection, no bound is ever active,
\* and the parameters equal those of the unprojected search.
C10_DefaultBoundsUnconstrained ==
    (prog = "deformable") =>
        /\ ~boundActive
        /\ parameters = unbounded
        /\ \A i \in {1, parameterLength}, s \in CandidateSteps :
              ProjectStep(parameters, s, BoundSelectAt(i), LowerBoundAt(i),
                          UpperBoundAt(i)) = s

\* C10 witness: the deformable search finished with parameters outside the
\* zero-width box.
C10_Witness ==
    /\ prog = "deformable"
    /\ phase = "finalized"
    /\ parameters # 0
    /\ LowerBoundAt(1) = UpperBoundAt(1)

\* An Optimize step is running: the optimizer has not stopped yet.
InOptimizeStep == pc = "register" /\ phase = "optimize" /\ stopReason = "none"

ParameterCountNow ==
    IF prog = "rigid" THEN RigidParameterCount
    ELSE IF levelControlPoints = << >>
         THEN ImageDimension * ControlPointCount(MeshSize)
         ELSE ImageDimension * levelControlPoints[Len(levelControlPoints)]

====
